---- MODULE Spec2Model ----
(***************************************************************************)
(* Model of bench/manager.go: the Manager of the benchmark harness.        *)
(*                                                                         *)
(* The specifications share the state of one Manager:                     *)
(*   SpecErr   the score ledger and the error budget (AddScore,            *)
(*             AppendError, TotalScore);                                   *)
(*   SpecID    the identity queue (RunIDFetcher, FetchNewID);              *)
(*   Spec      Next after the first Start, with actors that start,         *)
(*             retire and share trades;                                    *)
(*   SpecPurge Next after the first Start, with every actor free to        *)
(*             retire, and Close;                                          *)
(*   SpecStart Next after the first Start, with a growing score and the    *)
(*             deferred admission units running beside it;                 *)
(*   SpecGrow  Start and Next from a new Manager, with the prefetch loop,  *)
(*             a growing score and error count;                            *)
(*   SpecCancel SpecGrow with a prefetch loop that can be cancelled;       *)
(*   SpecLock  several callers of Initialize, Start and Next.              *)
(*                                                                         *)
(* Start and Next are modelled statement by statement wherever another     *)
(* goroutine can observe or change what they use: every lock acquisition,  *)
(* every channel operation, every call of the bank and every unlocked      *)
(* read of shared state is a step of its own.  A loop that runs under      *)
(* investorLock, or that only reads flags each actor sets once, is one     *)
(* step: the flag changes of different actors commute with it.             *)
(*                                                                         *)
(* The constants of the harness (AllowErrorMin, ...), the Investor         *)
(* implementations, NewClient and the random identity generator live in    *)
(* files of the package that are not part of the modelled source; they     *)
(* are modelled from the written specification.                            *)
(***************************************************************************)
EXTENDS Integers, Sequences, FiniteSets, TLC

\* ---------------------------------------------------------------------
\* Configuration constants of the harness (scaled down; the source only
\* relies on 0 < AllowErrorMin <= AllowErrorMax and on
\* BruteForceWorkers <= 4, the size of the account pool).
\* ---------------------------------------------------------------------
AllowErrorMin == 1
AllowErrorMax == 3
DefaultWorkers == 2
BruteForceWorkers == 1
AddUsersOnShare == 1
AddUsersOnNatural == 2

\* idlist: make(chan string, 10)
IdListCap == 10
\* start := 2 in Next
StartPerTick == 2
\* basePrice := 5105 in Start
BasePrice == 5105
\* var latestTradePrice int64 = 5000 in Next
DefaultTradePrice == 5000

\* ---------------------------------------------------------------------
\* Bounds of the model.
\* ---------------------------------------------------------------------
\* SpecErr: cap of the score and of the number of recorded failures
MaxScoreErr == 200
MaxErrors == 7
\* SpecID: identities minted, registrations that fail
MaxMint == 12
MaxRegFail == 2
\* SpecGrow: cap of the score and of the number of recorded failures
MaxScore == 200
MaxErrorsTick == 2
\* SpecGrow, SpecCancel: identities the prefetch loop runs ahead of the
\* demand (the channel allows IdListCap + 1; SpecLock and SpecID let it
\* fill the channel); orchestration: registrations that fail
MaxAhead == 1
MaxRegFailTick == 1
\* Spec: SharedTrade events handed over during a run, actors that retire
\* during a run
MaxShares == 1
MaxRetired == 1
\* SpecPurge: actors that retire during a run
MaxRetiredPurge == 3
\* SpecLock: concurrent callers of Initialize, Start and Next, calls of
\* Start
NumCallers == 2
MaxStarts == 2

\* score deltas reported by the actors
DeltasErr == {20, 100}
DeltasTick == {100}
\* SharedTrade events an actor may emit: (amount, price)
Trades == {[amount |-> 10, price |-> 5000]}
\* values reported by Investor.LatestTradePrice
TradePrices == {5010}

NilErr == "nil"
ErrValues == {"e1"}
\* the two results of AppendError
NoFailure == "nil"
OverFailure == "over"

Callers == 1..NumCallers

\* Go's integer division truncates toward zero.
GoDiv(a, b) ==
  IF a >= 0 THEN a \div b ELSE -((-a) \div b)

\* 1 << n
RECURSIVE Pow2(_)
Pow2(n) ==
  IF n = 0 THEN 1 ELSE 2 * Pow2(n - 1)

Range(s) == {s[k] : k \in 1..Len(s)}

VARIABLES
  score,        \* c.score
  errors,       \* c.errors
  overError,    \* c.overError
  lastAppend,   \* argument and result of the last AppendError call
  ts,           \* the TotalScore call in progress: position, locals, result
  idlist,       \* c.idlist (buffered channel)
  minted,       \* number of identities c.rand.ID() has produced
  regFailed,    \* identities whose NewBankID call failed
  ctxDone,      \* ctx.Done() is closed
  fpc,          \* RunIDFetcher: position
  fid,          \* RunIDFetcher: local id
  fetched,      \* the identities FetchNewID has returned, in order
  appepOK,      \* NewClient accepts c.appep
  heap,         \* every Investor object constructed so far
  investors,    \* c.investors (references into heap)
  totalivst,    \* c.totalivst
  level,        \* c.level
  credited,     \* bank identities isubank.AddCredit was called for
  nextLock,     \* c.nextLock: 0 or the caller holding it
  investorLock, \* c.investorLock: 0, the unit k or the caller -t holding it
  pc,           \* position of each caller of Initialize/Start/Next
  nx,           \* locals of the Start/Next call that holds nextLock
  units,        \* deferred admission units handed to the execution engine
  starts,       \* number of Start calls so far
  shared,       \* number of SharedTrade events the actors have handed over
  res           \* the values the returning Initialize/Start/Next hands back

errVars == <<score, errors, overError, lastAppend, ts>>
idVars == <<idlist, minted, regFailed, ctxDone, fpc, fid, fetched>>
tickVars == <<appepOK, heap, investors, totalivst, level, credited, nextLock,
              investorLock, pc, nx, units, starts, shared, res>>
vars == <<score, errors, overError, lastAppend, ts,
          idlist, minted, regFailed, ctxDone, fpc, fid, fetched,
          appepOK, heap, investors, totalivst, level, credited, nextLock,
          investorLock, pc, nx, units, starts, shared, res>>

\* ---------------------------------------------------------------------
\* State after NewManager
\* ---------------------------------------------------------------------
NoLocals ==
  [op |-> "none", i |-> 0, idx |-> 0, snap |-> <<>>, tasks |-> <<>>,
   jobs |-> <<>>, after |-> "none", latest |-> DefaultTradePrice,
   addByShare |-> 0, score |-> 0, shares |-> <<>>, asked |-> {},
   level0 |-> 0, reg0 |-> <<>>, retired0 |-> {}, unstarted0 |-> {},
   total0 |-> 0, active |-> 0, ec |-> 0, cur |-> 0, loop |-> "none"]

NoResult == [op |-> "none", err |-> "nil", tasks |-> <<>>]

IdleTS == [pc |-> "idle", over0 |-> FALSE, score |-> 0, ret |-> 0]

InitManager ==
  /\ score = 0
  /\ errors = <<>>
  /\ overError = FALSE
  /\ lastAppend = [arg |-> NilErr, ret |-> NoFailure]
  /\ ts = IdleTS
  /\ idlist = <<>>
  /\ minted = 0
  /\ regFailed = {}
  /\ ctxDone = FALSE
  /\ fpc = "select"
  /\ fid = 0
  /\ fetched = <<>>
  /\ heap = <<>>
  /\ investors = <<>>
  /\ totalivst = 0
  /\ level = 0
  /\ credited = {}
  /\ nextLock = 0
  /\ investorLock = 0
  /\ pc = [t \in Callers |-> "idle"]
  /\ nx = NoLocals
  /\ units = <<>>
  /\ starts = 0
  /\ shared = 0
  /\ res = NoResult

Init ==
  /\ InitManager
  /\ appepOK \in BOOLEAN

InitGrow ==
  /\ InitManager
  /\ appepOK = TRUE

\* ---------------------------------------------------------------------
\* Score ledger and error budget
\* ---------------------------------------------------------------------

\* AddScore: atomic.AddInt64(&c.score, score)
AddScore(d, cap) ==
  /\ score + d <= cap
  /\ score' = score + d

\* the errorLimit AppendError computes from c.GetScore()
ErrorLimit(s) ==
  LET errorLimit == GoDiv(s, 20)
  IN IF errorLimit < AllowErrorMin THEN AllowErrorMin
     ELSE IF errorLimit > AllowErrorMax THEN AllowErrorMax
     ELSE errorLimit

OverLimitMutant(errorLimit, ec) == errorLimit < ec

\* if errorLimit <= int64(ec)
OverLimit(errorLimit, ec) == errorLimit <= ec

\* AppendError(e); its body runs under errorLock
AppendError(e, cap) ==
  IF e = NilErr
  THEN /\ lastAppend' = [arg |-> e, ret |-> NoFailure]
       /\ UNCHANGED <<errors, overError>>
  ELSE /\ Len(errors) < cap
       /\ errors' = Append(errors, e)
       /\ LET ec == Len(errors')
              errorLimit == ErrorLimit(score)
          IN IF OverLimit(errorLimit, ec)
             THEN /\ overError' = TRUE
                  /\ lastAppend' = [arg |-> e, ret |-> OverFailure]
             ELSE /\ overError' = overError
                  /\ lastAppend' = [arg |-> e, ret |-> NoFailure]

\* ErrorCount(): len(c.errors) under errorLock
ErrorCount == Len(errors)

DemeritMutant(s, max) == GoDiv(s, max)

\* demerit := score / (AllowErrorMax * 2)
Demerit(s, max) == GoDiv(s, max * 2)

\* the value TotalScore computes from the score and the error count it read
Effective(s, ec) ==
  LET demerit == Demerit(s, AllowErrorMax)
  IN s - demerit * ec

VoidedResultMutant(s) == s

\* if c.overError { return 0 }
VoidedResult(s) == 0

\* TotalScore, first step: the read of c.overError
TotalScoreBegin ==
  /\ ts.pc \in {"idle", "done"}
  /\ IF overError
     THEN ts' = [pc |-> "done", over0 |-> TRUE, score |-> 0,
                 ret |-> VoidedResult(score)]
     ELSE ts' = [pc |-> "score", over0 |-> FALSE, score |-> 0, ret |-> 0]

\* TotalScore: score := c.GetScore()
TotalScoreReadScore ==
  /\ ts.pc = "score"
  /\ ts' = [ts EXCEPT !.pc = "count", !.score = score]

\* TotalScore: return score - demerit*int64(c.ErrorCount())
TotalScoreReturn ==
  /\ ts.pc = "count"
  /\ ts' = [ts EXCEPT !.pc = "done", !.ret = Effective(ts.score, ErrorCount)]

TotalScore ==
  /\ \/ TotalScoreBegin
     \/ TotalScoreReadScore
     \/ TotalScoreReturn
  /\ UNCHANGED <<score, errors, overError, lastAppend>>

ErrAddScore ==
  /\ \E d \in DeltasErr : AddScore(d, MaxScoreErr)
  /\ UNCHANGED <<errors, overError, lastAppend, ts, idVars, tickVars>>

ErrAppendError ==
  /\ \E e \in ErrValues \cup {NilErr} : AppendError(e, MaxErrors)
  /\ UNCHANGED <<score, ts, idVars, tickVars>>

ErrTotalScore ==
  /\ TotalScore
  /\ UNCHANGED <<idVars, tickVars>>

NextErr ==
  \/ ErrAddScore
  \/ ErrAppendError
  \/ ErrTotalScore

InitErr ==
  /\ InitManager
  /\ appepOK = TRUE

SpecErr == InitErr /\ [][NextErr]_vars

\* ---------------------------------------------------------------------
\* Claims about the ledger and the error budget (SpecErr)
\* ---------------------------------------------------------------------

\* C1: once an AppendError call has met the ceiling and set overError,
\* every TotalScore call that starts afterwards returns 0, whatever
\* AddScore and AppendError calls follow, and overError is never cleared.
C1_VoidedForever ==
  /\ [](ts.pc = "done" /\ ts.over0 => ts.ret = 0)
  /\ [][overError => overError']_vars
  /\ [][lastAppend'.ret = OverFailure /\ errors' # errors => overError']_vars

C1_Witness ==
  /\ overError
  /\ lastAppend.ret = NoFailure
  /\ lastAppend.arg # NilErr
  /\ score > 0
  /\ ts.pc = "done"
  /\ ts.over0
  /\ ts.ret = 0

\* C12: a TotalScore call that reads the run as not voided returns
\* score - (score / (2 * AllowErrorMax)) * errorCount, the division being
\* the integer one (8000 - (8000 / 200) * 1 = 7960 for AllowErrorMax = 100),
\* for the score and the error count it reads; a call that reads the run
\* as voided returns 0.
C12_Effective ==
  /\ [][ts'.pc = "done" /\ ts' # ts =>
          ts'.ret = IF ts'.over0 THEN 0
                    ELSE ts'.score
                           - (ts'.score \div (2 * AllowErrorMax)) * Len(errors)
     ]_vars
  /\ [](8000 - Demerit(8000, 100) * 1 = 7960)

C12_Witness ==
  /\ ts.pc = "done"
  /\ ~ts.over0
  /\ Len(errors) >= 1
  /\ ts.score % (2 * AllowErrorMax) # 0
  /\ 0 < ts.ret
  /\ ts.ret < ts.score

\* the ceiling of the error budget, stated as a clamp
Clamp(x, lo, hi) ==
  IF x < lo THEN lo ELSE IF x > hi THEN hi ELSE x

\* C2: a non-nil AppendError appends the failure, uses the ceiling
\* clamp(score/20, AllowErrorMin, AllowErrorMax), returns the
\* budget-exceeded failure and sets overError exactly when the count after
\* appending is >= the ceiling, and returns no failure otherwise; the
\* ceiling is AllowErrorMin up to score 20*AllowErrorMin and AllowErrorMax
\* from score 20*AllowErrorMax; a nil argument changes nothing.
C2_Ceiling ==
  [][lastAppend' # lastAppend \/ errors' # errors =>
      IF lastAppend'.arg = NilErr
      THEN /\ lastAppend'.ret = NoFailure
           /\ errors' = errors
           /\ overError' = overError
      ELSE LET ceiling == Clamp(score \div 20, AllowErrorMin, AllowErrorMax)
           IN /\ Len(errors') = Len(errors) + 1
              /\ (score <= 20 * AllowErrorMin => ceiling = AllowErrorMin)
              /\ (score >= 20 * AllowErrorMax => ceiling = AllowErrorMax)
              /\ ceiling = ErrorLimit(score)
              /\ IF Len(errors') >= ceiling
                 THEN lastAppend'.ret = OverFailure /\ overError'
                 ELSE lastAppend'.ret = NoFailure /\ overError' = overError
  ]_vars

C2_Witness ==
  /\ lastAppend.arg # NilErr
  /\ lastAppend.ret = OverFailure
  /\ score >= 20 * AllowErrorMax
  /\ Len(errors) = AllowErrorMax

\* ---------------------------------------------------------------------
\* Identity queue
\* ---------------------------------------------------------------------

\* c.rand.ID(): a fresh identity on every call
RandID == minted + 1

\* RunIDFetcher, select: return when ctx.Done() is closed, otherwise take
\* the default case; cap bounds the identities a run mints
FetcherSelect(cap) ==
  /\ fpc = "select"
  /\ IF ctxDone
     THEN fpc' = "stopped"
     ELSE /\ minted < cap
          /\ fpc' = "mint"
  /\ UNCHANGED <<idlist, minted, fid, regFailed, ctxDone, fetched>>

\* RunIDFetcher: id := c.rand.ID()
FetcherMint ==
  /\ fpc = "mint"
  /\ minted' = minted + 1
  /\ fid' = RandID
  /\ fpc' = "register"
  /\ UNCHANGED <<idlist, regFailed, ctxDone, fetched>>

\* RunIDFetcher: c.isubank.NewBankID(id) returns; its failure is only
\* logged; failcap bounds the registrations that fail
FetcherRegister(failcap, ok) ==
  /\ fpc = "register"
  /\ ok \/ Cardinality(regFailed) < failcap
  /\ regFailed' = IF ok THEN regFailed ELSE regFailed \cup {fid}
  /\ fpc' = "push"
  /\ UNCHANGED <<idlist, minted, fid, ctxDone, fetched>>

\* RunIDFetcher: c.idlist <- id, which blocks while the buffer is full
FetcherPush ==
  /\ fpc = "push"
  /\ Len(idlist) < IdListCap
  /\ idlist' = Append(idlist, fid)
  /\ fid' = 0
  /\ fpc' = "select"
  /\ UNCHANGED <<minted, regFailed, ctxDone, fetched>>

\* the owner of ctx cancels it
Cancel ==
  /\ ~ctxDone
  /\ ctxDone' = TRUE
  /\ UNCHANGED <<idlist, minted, regFailed, fpc, fid, fetched>>

ReceiveMutant(q) == q

\* <-c.idlist removes the identity it returns from the channel
Receive(q) == Tail(q)

\* FetchNewID: return <-c.idlist, which blocks while the buffer is empty
FetchNewID ==
  /\ idlist # <<>>
  /\ fetched' = Append(fetched, Head(idlist))
  /\ idlist' = Receive(idlist)
  /\ UNCHANGED <<minted, regFailed, ctxDone, fpc, fid>>

IDSelect ==
  /\ FetcherSelect(MaxMint)
  /\ UNCHANGED <<errVars, tickVars>>

IDMint ==
  /\ FetcherMint
  /\ UNCHANGED <<errVars, tickVars>>

IDRegister ==
  /\ \E ok \in BOOLEAN : FetcherRegister(MaxRegFail, ok)
  /\ UNCHANGED <<errVars, tickVars>>

IDPush ==
  /\ FetcherPush
  /\ UNCHANGED <<errVars, tickVars>>

IDCancel ==
  /\ Cancel
  /\ UNCHANGED <<errVars, tickVars>>

\* a consumer (any goroutine) calls FetchNewID
IDFetch ==
  /\ FetchNewID
  /\ UNCHANGED <<errVars, tickVars>>

NextID ==
  \/ IDSelect
  \/ IDMint
  \/ IDRegister
  \/ IDPush
  \/ IDCancel
  \/ IDFetch

InitID ==
  /\ InitManager
  /\ appepOK = TRUE

SpecID == InitID /\ [][NextID]_vars

\* C3: no two FetchNewID calls return the same identity, for any
\* interleaving of the consumers with the producer, which mints a fresh
\* identity in each iteration.
C3_NoDuplicateID ==
  \A i, j \in 1..Len(fetched) : i # j => fetched[i] # fetched[j]

C3_Witness ==
  /\ Len(fetched) >= 3
  /\ Len(idlist) >= 2
  /\ fpc = "push"

\* the Go scheduler lets the prefetch goroutine take every step it is able
\* to take; nothing makes a consumer call FetchNewID
FairID ==
  /\ WF_vars(IDSelect)
  /\ WF_vars(IDMint)
  /\ WF_vars(IDRegister)
  /\ WF_vars(IDPush)

SpecIDFair == InitID /\ [][NextID]_vars /\ FairID

\* the prefetch loop waits in c.idlist <- id on a full channel after ctx
\* was cancelled
BlockedAfterCancel ==
  /\ ctxDone
  /\ fpc = "push"
  /\ Len(idlist) = IdListCap

\* C15 as stated: once ctx is cancelled the prefetch loop terminates in
\* every execution, also when it waits on a full channel and no consumer
\* fetches; neither the cancellation nor the return of the loop takes an
\* identity out of the channel.
C15_CancelStops ==
  /\ ctxDone ~> fpc = "stopped"
  /\ [][ctxDone' # ctxDone \/ fpc' # fpc => Len(idlist') >= Len(idlist)]_vars

\* C14 as stated: every identity FetchNewID returns is one whose
\* registration with the bank succeeded, the prefetch loop passing over an
\* identity whose registration failed.
C14_OnlyRegistered ==
  \A i \in 1..Len(fetched) : fetched[i] \notin regFailed

\* ---------------------------------------------------------------------
\* Actors (the Investor interface) and schedulable units
\* ---------------------------------------------------------------------

\* NewRandomInvestor(cl, credit, isu, unitamount, price), cl carrying the
\* bank identity
NewRandomInvestor(id, credit, isu, unitamount, price) ==
  [kind |-> "random", bankID |-> id, credit |-> credit, isu |-> isu,
   unit |-> unitamount, price |-> price, started |-> FALSE,
   startCompleted |-> FALSE, retired |-> FALSE, closed |-> FALSE]

\* NewBruteForceInvestor(cl)
NewBruteForceInvestor(id) ==
  [kind |-> "brute", bankID |-> id, credit |-> 0, isu |-> 0,
   unit |-> 0, price |-> 0, started |-> FALSE,
   startCompleted |-> FALSE, retired |-> FALSE, closed |-> FALSE]

\* accounts[i]: the fixed pool of known accounts, told apart from the
\* minted identities (1, 2, ...) by their sign
Accounts(i) == -(i + 1)

\* investor.Start() marks the investor started and yields its start unit
StartTask(r) == [kind |-> "start", inv |-> r, by |-> "none"]
\* the unit investor.Next() yields
WorkTask(r) == [kind |-> "work", inv |-> r, by |-> "none"]
\* taskworker.NewExecTask(func..., 0) of addInvestors
AdmitTask(r, by) == [kind |-> "admit", inv |-> r, by |-> by]

IsAdmit(task) == task.kind = "admit"

\* the deferred admission units of a returned batch, as the execution
\* engine receives them
AdmitUnits(tasks) ==
  LET sel == SelectSeq(tasks, IsAdmit)
  IN [k \in 1..Len(sel) |-> [inv |-> sel[k].inv, st |-> "pending"]]

Refs == 1..Len(heap)
RetiredNow == {r \in Refs : heap[r].retired}
Unstarted(invs) == {r \in Range(invs) : ~heap[r].started}

\* the non-empty lists of at most n SharedTrade events
TradeSeqs(n) == UNION {[1..k -> Trades] : k \in 1..n}

LockFreeMutant(l) == TRUE

\* sync.Mutex.Lock returns only when the mutex is free
LockFree(l) == l = 0

\* ---------------------------------------------------------------------
\* Registry
\* ---------------------------------------------------------------------

\* AddInvestor: c.investors = append(c.investors, i)
AddInvestor(invs, r) == Append(invs, r)

KeepMutant(inv) == TRUE

\* PurgeInvestor keeps the actors for which IsRetired() is false
Keep(inv) == ~inv.retired

ClearedMutant(cleared, r) == <<r>> \o cleared

\* cleared = append(cleared, i)
Cleared(cleared, r) == Append(cleared, r)

\* PurgeInvestor: the loop over c.investors, closing the retired actors
\* and collecting the others in cleared
RECURSIVE PurgeLoop(_, _, _)
PurgeLoop(rest, cleared, h) ==
  IF rest = <<>>
  THEN [investors |-> cleared, heap |-> h]
  ELSE LET r == Head(rest)
       IN IF Keep(h[r])
          THEN PurgeLoop(Tail(rest), Cleared(cleared, r), h)
          ELSE PurgeLoop(Tail(rest), cleared, [h EXCEPT ![r].closed = TRUE])

PurgeInvestor(invs, h) == PurgeLoop(invs, <<>>, h)

\* ActiveInvestors(): len(c.investors)
ActiveInvestors == Len(investors)

\* ---------------------------------------------------------------------
\* Initialize, Start, Next
\* ---------------------------------------------------------------------

\* the return statement: the results are set, the deferred
\* c.nextLock.Unlock() has not run yet
Return(t, err, tasks) ==
  /\ res' = [op |-> nx.op, err |-> err, tasks |-> tasks]
  /\ pc' = [pc EXCEPT ![t] = "ret"]

\* defer c.nextLock.Unlock(), after which the caller passes the batch to
\* the execution engine
Unlock(t) ==
  /\ pc[t] = "ret"
  /\ nextLock' = 0
  /\ units' = units \o AdmitUnits(res.tasks)
  /\ pc' = [pc EXCEPT ![t] = "idle"]
  /\ nx' = NoLocals
  /\ res' = NoResult
  /\ UNCHANGED <<errVars, idVars, appepOK, heap, investors, totalivst, level,
                 credited, investorLock, starts, shared>>

\* Initialize: c.nextLock.Lock()
InitializeEnter(t) ==
  /\ pc[t] = "idle"
  /\ LockFree(nextLock)
  /\ nextLock' = t
  /\ pc' = [pc EXCEPT ![t] = "i_body"]
  /\ nx' = [NoLocals EXCEPT !.op = "Initialize"]
  /\ UNCHANGED <<errVars, idVars, appepOK, heap, investors, totalivst, level,
                 credited, investorLock, units, starts, shared,
                 res>>

\* Initialize: isulog.Initialize, NewClient, guest.Initialize
InitializeBody(t, logOK, guestOK) ==
  /\ pc[t] = "i_body"
  /\ Return(t, IF ~logOK THEN "isulog"
               ELSE IF ~appepOK THEN "newclient"
               ELSE IF ~guestOK THEN "guest"
               ELSE "nil", <<>>)
  /\ UNCHANGED <<errVars, idVars, appepOK, heap, investors, totalivst, level,
                 credited, nextLock, investorLock, nx, units, starts,
                 shared>>

\* Start: c.nextLock.Lock(); max caps the number of Start calls of a run
StartEnter(t, max) ==
  /\ pc[t] = "idle"
  /\ starts < max
  /\ LockFree(nextLock)
  /\ nextLock' = t
  /\ starts' = starts + 1
  /\ pc' = [pc EXCEPT ![t] = "s_default"]
  /\ nx' = [NoLocals EXCEPT !.op = "Start", !.reg0 = investors,
                            !.total0 = totalivst]
  /\ UNCHANGED <<errVars, idVars, appepOK, heap, investors, totalivst, level,
                 credited, investorLock, units, shared, res>>

DefaultInvestorMutant(i, id) ==
  NewRandomInvestor(id, 0, 5, 1, BasePrice + GoDiv(i, 2))

\* the investor Start builds for default worker i
DefaultInvestor(i, id) ==
  IF i % 2 = 1
  THEN NewRandomInvestor(id, 100000, 0, 1, BasePrice + GoDiv(i, 2))
  ELSE NewRandomInvestor(id, 0, 5, 1, BasePrice + GoDiv(i, 2))

\* Start, loop over the default workers: the loop test, c.newClient(),
\* which waits in FetchNewID, and the construction of the investor
StartDefault(t) ==
  /\ pc[t] = "s_default"
  /\ IF nx.i < DefaultWorkers
     THEN /\ FetchNewID
          /\ IF ~appepOK
             THEN /\ Return(t, "newclient", <<>>)
                  /\ UNCHANGED <<heap, nx>>
             ELSE LET inv == DefaultInvestor(nx.i, Head(idlist))
                  IN /\ heap' = Append(heap, inv)
                     /\ nx' = [nx EXCEPT !.cur = Len(heap) + 1,
                                         !.loop = "s_default"]
                     /\ pc' = [pc EXCEPT ![t] = IF inv.credit > 0
                                                THEN "s_credit"
                                                ELSE "s_admit"]
                     /\ res' = res
     ELSE /\ pc' = [pc EXCEPT ![t] = "s_brute"]
          /\ nx' = [nx EXCEPT !.i = 0]
          /\ UNCHANGED <<idVars, heap, res>>
  /\ UNCHANGED <<errVars, appepOK, investors, totalivst, level, credited,
                 nextLock, investorLock, units, starts, shared>>

\* Start: c.isubank.AddCredit(investor.BankID(), investor.Credit())
StartCredit(t) ==
  /\ pc[t] = "s_credit"
  /\ credited' = credited \cup {heap[nx.cur].bankID}
  /\ pc' = [pc EXCEPT ![t] = "s_admit"]
  /\ UNCHANGED <<errVars, idVars, appepOK, heap, investors, totalivst, level,
                 nextLock, investorLock, nx, units, starts, shared, res>>

\* Start, AddInvestor: c.investorLock.Lock(); the caller t holds the lock
\* as -t
StartAdmitLock(t) ==
  /\ pc[t] = "s_admit"
  /\ LockFree(investorLock)
  /\ investorLock' = -t
  /\ pc' = [pc EXCEPT ![t] = "s_append"]
  /\ UNCHANGED <<errVars, idVars, appepOK, heap, investors, totalivst, level,
                 credited, nextLock, nx, units, starts, shared, res>>

\* Start, AddInvestor: c.investors = append(c.investors, i)
StartAdmitAppend(t) ==
  /\ pc[t] = "s_append"
  /\ investors' = AddInvestor(investors, nx.cur)
  /\ pc' = [pc EXCEPT ![t] = "s_count"]
  /\ UNCHANGED <<errVars, idVars, appepOK, heap, totalivst, level, credited,
                 nextLock, investorLock, nx, units, starts, shared, res>>

\* Start, AddInvestor: c.totalivst++
StartAdmitCount(t) ==
  /\ pc[t] = "s_count"
  /\ totalivst' = totalivst + 1
  /\ pc' = [pc EXCEPT ![t] = "s_unlock"]
  /\ UNCHANGED <<errVars, idVars, appepOK, heap, investors, level, credited,
                 nextLock, investorLock, nx, units, starts, shared, res>>

\* Start, AddInvestor: defer c.investorLock.Unlock()
StartAdmitUnlock(t) ==
  /\ pc[t] = "s_unlock"
  /\ investorLock' = 0
  /\ pc' = [pc EXCEPT ![t] = "s_issue"]
  /\ UNCHANGED <<errVars, idVars, appepOK, heap, investors, totalivst, level,
                 credited, nextLock, nx, units, starts, shared, res>>

\* Start: tasks = append(tasks, investor.Start()) and the loop increment
StartIssue(t) ==
  /\ pc[t] = "s_issue"
  /\ heap' = [heap EXCEPT ![nx.cur].started = TRUE]
  /\ nx' = [nx EXCEPT !.i = nx.i + 1, !.cur = 0,
                      !.tasks = Append(nx.tasks, StartTask(nx.cur))]
  /\ pc' = [pc EXCEPT ![t] = nx.loop]
  /\ UNCHANGED <<errVars, idVars, appepOK, investors, totalivst, level,
                 credited, nextLock, investorLock, units, starts, shared,
                 res>>

\* Start, loop over the brute-force workers: the loop test, NewClient for
\* the known account and the construction of the investor; after the last
\* one the return of the batch
StartBrute(t) ==
  /\ pc[t] = "s_brute"
  /\ IF nx.i < BruteForceWorkers
     THEN IF ~appepOK
          THEN /\ Return(t, "newclient", <<>>)
               /\ UNCHANGED <<heap, nx>>
          ELSE /\ heap' = Append(heap, NewBruteForceInvestor(Accounts(nx.i)))
               /\ nx' = [nx EXCEPT !.cur = Len(heap) + 1, !.loop = "s_brute"]
               /\ pc' = [pc EXCEPT ![t] = "s_admit"]
               /\ res' = res
     ELSE /\ Return(t, "nil", nx.tasks)
          /\ UNCHANGED <<heap, nx>>
  /\ UNCHANGED <<errVars, idVars, appepOK, investors, totalivst, level,
                 credited, nextLock, investorLock, units, starts, shared>>

\* Next: c.nextLock.Lock()
NextEnter(t) ==
  /\ pc[t] = "idle"
  /\ LockFree(nextLock)
  /\ nextLock' = t
  /\ pc' = [pc EXCEPT ![t] = "n_purge"]
  /\ nx' = [NoLocals EXCEPT !.op = "Next", !.level0 = level]
  /\ UNCHANGED <<errVars, idVars, appepOK, heap, investors, totalivst, level,
                 credited, investorLock, units, starts, shared, res>>

\* Next: c.PurgeInvestor(), which waits for investorLock, runs its loop
\* and unlocks
NextPurgeInvestor(t) ==
  /\ pc[t] = "n_purge"
  /\ LockFree(investorLock)
  /\ LET p == PurgeInvestor(investors, heap)
     IN /\ investors' = p.investors
        /\ heap' = p.heap
  /\ nx' = [nx EXCEPT !.reg0 = investors, !.retired0 = RetiredNow]
  /\ pc' = [pc EXCEPT ![t] = "n_check"]
  /\ UNCHANGED <<errVars, idVars, appepOK, totalivst, level, credited,
                 nextLock, investorLock, units, starts, shared, res>>

NoActiveMutant(n) == n < 0

\* if c.ActiveInvestors() == 0
NoActive(n) == n = 0

\* Next: the check for active investors, which reads len(c.investors)
\* without investorLock
NextCheck(t) ==
  /\ pc[t] = "n_check"
  /\ nx' = [nx EXCEPT !.active = ActiveInvestors]
  /\ IF NoActive(ActiveInvestors)
     THEN res' = [op |-> "Next", err |-> "noactive", tasks |-> <<>>]
     ELSE res' = res
  /\ pc' = [pc EXCEPT ![t] = IF NoActive(ActiveInvestors) THEN "ret"
                             ELSE "n_start"]
  /\ UNCHANGED <<errVars, idVars, appepOK, heap, investors, totalivst, level,
                 credited, nextLock, investorLock, units, starts, shared>>

FreshMutant(inv) == TRUE

\* if !investor.IsStarted()
Fresh(inv) == ~inv.started

ExhaustedMutant(start) == FALSE

\* Next: if start <= 0 { break }
Exhausted(start) == start <= 0

\* Next: the loop that starts at most `start` investors not yet started
RECURSIVE StartLoop(_, _, _, _)
StartLoop(rest, start, tasks, h) ==
  IF rest = <<>>
  THEN [tasks |-> tasks, heap |-> h]
  ELSE LET r == Head(rest)
           fresh == Fresh(h[r])
           tasks2 == IF fresh THEN Append(tasks, StartTask(r)) ELSE tasks
           h2 == IF fresh THEN [h EXCEPT ![r].started = TRUE] ELSE h
           start2 == IF fresh THEN start - 1 ELSE start
       IN IF Exhausted(start2)
          THEN [tasks |-> tasks2, heap |-> h2]
          ELSE StartLoop(Tail(rest), start2, tasks2, h2)

\* Next: the start loop, which ranges over c.investors as it is when the
\* loop begins, read without investorLock
NextStartLoop(t) ==
  /\ pc[t] = "n_start"
  /\ LET s == StartLoop(investors, StartPerTick, nx.tasks, heap)
     IN /\ heap' = s.heap
        /\ nx' = [nx EXCEPT !.tasks = s.tasks,
                            !.unstarted0 = Unstarted(investors)]
  /\ pc' = [pc EXCEPT ![t] = "n_work"]
  /\ UNCHANGED <<errVars, idVars, appepOK, investors, totalivst, level,
                 credited, nextLock, investorLock, units, starts, shared,
                 res>>

\* the addInvestors calls the SharedTrade events of one investor cause
ShareJobs(trades) ==
  [k \in 1..Len(trades) |->
     [num |-> AddUsersOnShare, unit |-> trades[k].amount,
      price |-> trades[k].price, by |-> "share"]]

SkipMutant(inv) == ~inv.startCompleted

\* the investors the second loop of Next passes over
Skip(inv) == ~inv.startCompleted \/ inv.retired

\* Next: the second loop over c.investors from position k on, up to the
\* first investor whose SharedTrades() is not empty (sh) or to the end.
\* W holds the investors whose Next() yields a unit, p is the value of
\* LatestTradePrice(); acc.idx is the position the loop stopped at, 0
\* when the loop has finished.
RECURSIVE WorkLoop(_, _, _, _, _, _, _)
WorkLoop(list, k, h, W, sh, p, acc) ==
  IF k > Len(list)
  THEN [acc EXCEPT !.idx = 0]
  ELSE LET r == list[k]
       IN IF Skip(h[r])
          THEN WorkLoop(list, k + 1, h, W, sh, p, acc)
          ELSE LET acc2 == [acc EXCEPT
                              !.tasks = IF r \in W
                                        THEN Append(@, WorkTask(r)) ELSE @,
                              !.asked = @ \cup {r}]
               IN IF r = sh
                  THEN [acc2 EXCEPT !.idx = k]
                  ELSE WorkLoop(list, k + 1, h, W, sh, p,
                                [acc2 EXCEPT !.latest = p])

\* Next: the second loop, which ranges over c.investors as it is when the
\* loop begins (read without investorLock), up to its next addInvestors
\* call or to its end
NextWork(t, maxShares) ==
  /\ pc[t] = "n_work"
  /\ LET list == IF nx.idx = 0 THEN investors ELSE nx.snap
         cand == {r \in {list[k] : k \in (nx.idx + 1)..Len(list)} :
                    ~Skip(heap[r])}
     IN \E W \in SUBSET cand, sh \in cand \cup {0}, p \in TradePrices :
          LET a == WorkLoop(list, nx.idx + 1, heap, W, sh, p,
                            [tasks |-> nx.tasks, asked |-> nx.asked,
                             idx |-> 0, latest |-> nx.latest])
          IN /\ W \subseteq a.asked
             /\ sh # 0 => sh \in a.asked /\ shared < maxShares
             /\ IF a.idx = 0
                THEN /\ nx' = [nx EXCEPT !.tasks = a.tasks,
                                         !.asked = a.asked,
                                         !.latest = a.latest,
                                         !.idx = 0, !.snap = <<>>]
                     /\ pc' = [pc EXCEPT ![t] = "n_score"]
                     /\ shared' = shared
                ELSE \E trades \in TradeSeqs(maxShares - shared) :
                       /\ nx' = [nx EXCEPT
                                   !.tasks = a.tasks,
                                   !.asked = a.asked,
                                   !.latest = a.latest,
                                   !.idx = a.idx, !.snap = list,
                                   !.shares = @ \o
                                      [k \in 1..Len(trades) |->
                                         [inv |-> sh, trade |-> trades[k],
                                          completed |->
                                            heap[sh].startCompleted,
                                          retired |-> heap[sh].retired]],
                                   !.jobs = ShareJobs(trades),
                                   !.i = 0, !.after = "n_work"]
                       /\ pc' = [pc EXCEPT ![t] = "n_add"]
                       /\ shared' = shared + Len(trades)
  /\ UNCHANGED <<errVars, idVars, appepOK, heap, investors, totalivst, level,
                 credited, nextLock, investorLock, units, starts, res>>

\* Next: score := c.GetScore()
NextGetScore(t) ==
  /\ pc[t] = "n_score"
  /\ nx' = [nx EXCEPT !.score = score]
  /\ pc' = [pc EXCEPT ![t] = "n_natural"]
  /\ UNCHANGED <<errVars, idVars, appepOK, heap, investors, totalivst, level,
                 credited, nextLock, investorLock, units, starts, shared,
                 res>>

LevelGateMutant(ec) == FALSE

\* if AllowErrorMin < c.ErrorCount() { break }
LevelGate(ec) == AllowErrorMin < ec

NextScoreMutant(l) == Pow2(l) * 100 - 100

\* nextScore := (1 << c.level) * 100
NextScore(l) == Pow2(l) * 100

\* Next, natural-growth loop: the test of the score against nextScore and
\* the test of c.ErrorCount(), which reads the count under errorLock and
\* releases the lock; either break returns the batch
NextNatural(t) ==
  /\ pc[t] = "n_natural"
  /\ IF nx.score < NextScore(level)
     THEN /\ Return(t, "nil", nx.tasks)
          /\ nx' = nx
     ELSE /\ nx' = [nx EXCEPT !.ec = ErrorCount]
          /\ IF LevelGate(ErrorCount)
             THEN res' = [op |-> nx.op, err |-> "nil", tasks |-> nx.tasks]
             ELSE res' = res
          /\ pc' = [pc EXCEPT ![t] = IF LevelGate(ErrorCount) THEN "ret"
                                     ELSE "n_level"]
  /\ UNCHANGED <<errVars, idVars, appepOK, heap, investors, totalivst, level,
                 credited, nextLock, investorLock, units, starts, shared>>

\* Next, natural-growth loop: c.level++ and the call of addInvestors
NextLevel(t) ==
  /\ pc[t] = "n_level"
  /\ level' = level + 1
  /\ nx' = [nx EXCEPT !.jobs = <<[num |-> AddUsersOnNatural,
                                  unit |-> level' + 1,
                                  price |-> nx.latest,
                                  by |-> "natural"]>>,
                      !.i = 0, !.after = "n_natural"]
  /\ pc' = [pc EXCEPT ![t] = "n_add"]
  /\ UNCHANGED <<errVars, idVars, appepOK, heap, investors, totalivst,
                 credited, nextLock, investorLock, units, starts, shared,
                 res>>

AddedInvestorMutant(i, id, unitamount, price) ==
  IF i % 2 = 0
  THEN NewRandomInvestor(id, price * 1000, 0, unitamount, price - 2)
  ELSE NewRandomInvestor(id, 0, unitamount * 100, unitamount, price + 5)

\* the investor addInvestors builds at index i of a request
AddedInvestor(i, id, unitamount, price) ==
  IF i % 2 = 1
  THEN NewRandomInvestor(id, price * 1000, 0, unitamount, price - 2)
  ELSE NewRandomInvestor(id, 0, unitamount * 100, unitamount, price + 5)

BatchDoneMutant(i, num) == i + 1 >= num + 1

\* addInvestors: for i := 0; i < num; i++ -- was iteration i the last one
BatchDone(i, num) == i + 1 >= num

\* Next: one iteration of the loop of addInvestors; newClient waits in
\* FetchNewID; after the last iteration of the last request control goes
\* back to the loop that made the request
NextAdd(t) ==
  /\ pc[t] = "n_add"
  /\ FetchNewID
  /\ IF ~appepOK
     THEN /\ Return(t, "newclient", <<>>)
          /\ UNCHANGED <<heap, nx>>
     ELSE LET job == Head(nx.jobs)
              r == Len(heap) + 1
              tasks2 == Append(nx.tasks, AdmitTask(r, job.by))
              done == BatchDone(nx.i, job.num)
              last == done /\ Len(nx.jobs) = 1
              shared2 == IF done /\ job.by = "share"
                         THEN nx.addByShare + 1 ELSE nx.addByShare
          IN /\ heap' = Append(heap, AddedInvestor(nx.i, Head(idlist),
                                                   job.unit, job.price))
             /\ IF last /\ nx.after = "n_work"
                THEN \E p \in TradePrices :
                       nx' = [nx EXCEPT !.tasks = tasks2, !.jobs = <<>>,
                                        !.i = 0, !.addByShare = shared2,
                                        !.latest = p]
                ELSE nx' = [nx EXCEPT !.tasks = tasks2,
                                      !.jobs = IF done THEN Tail(nx.jobs)
                                               ELSE nx.jobs,
                                      !.i = IF done THEN 0 ELSE nx.i + 1,
                                      !.addByShare = shared2]
             /\ pc' = [pc EXCEPT ![t] = IF last THEN nx.after ELSE "n_add"]
             /\ res' = res
  /\ UNCHANGED <<errVars, appepOK, investors, totalivst, level, credited,
                 nextLock, investorLock, units, starts, shared>>

\* Close: i.Close() for every investor of c.investors, read without
\* investorLock
Close ==
  /\ \E r \in Range(investors) : ~heap[r].closed
  /\ heap' = [r \in Refs |-> IF r \in Range(investors)
                             THEN [heap[r] EXCEPT !.closed = TRUE]
                             ELSE heap[r]]
  /\ UNCHANGED <<errVars, idVars, appepOK, investors, totalivst, level,
                 credited, nextLock, investorLock, pc, nx, units, starts,
                 shared, res>>

\* ---------------------------------------------------------------------
\* Deferred admission units, run by the execution engine
\* ---------------------------------------------------------------------

\* the closure of addInvestors: if investor.Credit() > 0, the call of
\* c.isubank.AddCredit, made with no lock held
UnitCredit(k) ==
  /\ units[k].st = "pending"
  /\ heap[units[k].inv].credit > 0
  /\ credited' = credited \cup {heap[units[k].inv].bankID}
  /\ units' = [units EXCEPT ![k].st = "credited"]
  /\ UNCHANGED <<errVars, idVars, appepOK, heap, investors, totalivst, level,
                 nextLock, investorLock, pc, nx, starts, shared, res>>

\* has the closure reached its call of c.AddInvestor
AtAddInvestor(u) ==
  \/ u.st = "credited"
  \/ u.st = "pending" /\ heap[u.inv].credit <= 0

\* AddInvestor: c.investorLock.Lock()
UnitLock(k) ==
  /\ AtAddInvestor(units[k])
  /\ LockFree(investorLock)
  /\ investorLock' = k
  /\ units' = [units EXCEPT ![k].st = "locked"]
  /\ UNCHANGED <<errVars, idVars, appepOK, heap, investors, totalivst, level,
                 credited, nextLock, pc, nx, starts, shared, res>>

\* AddInvestor: c.investors = append(c.investors, i)
UnitAppend(k) ==
  /\ units[k].st = "locked"
  /\ investorLock = k
  /\ investors' = AddInvestor(investors, units[k].inv)
  /\ units' = [units EXCEPT ![k].st = "appended"]
  /\ UNCHANGED <<errVars, idVars, appepOK, heap, totalivst, level, credited,
                 nextLock, investorLock, pc, nx, starts, shared, res>>

\* AddInvestor: c.totalivst++
UnitCount(k) ==
  /\ units[k].st = "appended"
  /\ totalivst' = totalivst + 1
  /\ units' = [units EXCEPT ![k].st = "counted"]
  /\ UNCHANGED <<errVars, idVars, appepOK, heap, investors, level, credited,
                 nextLock, investorLock, pc, nx, starts, shared, res>>

\* AddInvestor: defer c.investorLock.Unlock()
UnitUnlock(k) ==
  /\ units[k].st = "counted"
  /\ investorLock' = 0
  /\ units' = [units EXCEPT ![k].st = "done"]
  /\ UNCHANGED <<errVars, idVars, appepOK, heap, investors, totalivst, level,
                 credited, nextLock, pc, nx, starts, shared, res>>

\* ---------------------------------------------------------------------
\* The actors' own lifecycles (the units of work they were issued run in
\* the execution engine, concurrently with everything else)
\* ---------------------------------------------------------------------

\* the start unit of an actor succeeds
InvestorStartComplete(r) ==
  /\ heap[r].started
  /\ ~heap[r].startCompleted
  /\ ~heap[r].retired
  /\ heap' = [heap EXCEPT ![r].startCompleted = TRUE]
  /\ UNCHANGED <<errVars, idVars, appepOK, investors, totalivst, level,
                 credited, nextLock, investorLock, pc, nx, units,
                 starts, shared, res>>

\* an actor gives up: IsRetired() is true from now on
InvestorRetire(r, max) ==
  /\ heap[r].started
  /\ ~heap[r].retired
  /\ Cardinality(RetiredNow) < max
  /\ heap' = [heap EXCEPT ![r].retired = TRUE]
  /\ UNCHANGED <<errVars, idVars, appepOK, investors, totalivst, level,
                 credited, nextLock, investorLock, pc, nx, units,
                 starts, shared, res>>

\* ---------------------------------------------------------------------
\* The specifications of the orchestration
\*   Spec       one scheduling loop (caller 1) calls Next after the first
\*              Start; the actors start, retire and share; the score
\*              stays 0, so the natural-growth loop ends at its first test
\*   SpecPurge  the same with every actor free to retire and none sharing
\*              a trade; Close may be called at any time
\*   SpecStart  the same with a growing score and the engine running the
\*              deferred units while Next runs
\*   SpecGrow   one scheduling loop calls Start and Next on a new Manager;
\*              the prefetch loop mints and pushes; the score and the
\*              error count grow; the returned units are not run
\*   SpecCancel SpecGrow without recorded errors, with a prefetch loop
\*              that can be cancelled, under fair scheduling
\*   SpecLock   NumCallers callers call Initialize, Start and Next while
\*              the prefetch loop fills the channel
\* Spec, SpecPurge and SpecStart begin in InitStarted, where the channel
\* holds more identities than their calls of Next fetch; the prefetch loop
\* is not scheduled in them.
\* ---------------------------------------------------------------------
scoreFrame == <<idVars, appepOK, heap, investors, totalivst, level, credited,
                nextLock, investorLock, pc, nx, units, starts, shared,
                res>>

TickAddScore ==
  /\ \E d \in DeltasTick : AddScore(d, MaxScore)
  /\ UNCHANGED <<errors, overError, lastAppend, ts, scoreFrame>>

TickAppendError ==
  /\ \E e \in ErrValues : AppendError(e, MaxErrorsTick)
  /\ UNCHANGED <<score, ts, scoreFrame>>

\* the prefetch loop, at most MaxAhead identities ahead of the demand
TickSelect ==
  /\ FetcherSelect(Len(fetched) + MaxAhead)
  /\ UNCHANGED <<errVars, tickVars>>

\* the prefetch loop, free to fill the channel
RunSelect ==
  /\ FetcherSelect(MaxMint)
  /\ UNCHANGED <<errVars, tickVars>>

TickMint ==
  /\ FetcherMint
  /\ UNCHANGED <<errVars, tickVars>>

TickRegister ==
  /\ \E ok \in BOOLEAN : FetcherRegister(MaxRegFailTick, ok)
  /\ UNCHANGED <<errVars, tickVars>>

TickPush ==
  /\ FetcherPush
  /\ UNCHANGED <<errVars, tickVars>>

\* the owner of the context of RunIDFetcher cancels it
TickCancel ==
  /\ Cancel
  /\ UNCHANGED <<errVars, tickVars>>

\* the caller of the single scheduling loop
Scheduler == CHOOSE t \in Callers : \A u \in Callers : t <= u

StartCall == StartEnter(Scheduler, MaxStarts)
StartDefaults == StartDefault(Scheduler)
StartCredits == StartCredit(Scheduler)
StartAdmitLocks == StartAdmitLock(Scheduler)
StartAdmitAppends == StartAdmitAppend(Scheduler)
StartAdmitCounts == StartAdmitCount(Scheduler)
StartAdmitUnlocks == StartAdmitUnlock(Scheduler)
StartIssues == StartIssue(Scheduler)
StartBrutes == StartBrute(Scheduler)
TickEnter == NextEnter(Scheduler)
TickPurge == NextPurgeInvestor(Scheduler)
TickCheck == NextCheck(Scheduler)
TickStart == NextStartLoop(Scheduler)
TickWork == NextWork(Scheduler, MaxShares)
TickWorkNoShare == NextWork(Scheduler, 0)
TickScore == NextGetScore(Scheduler)
TickNatural == NextNatural(Scheduler)
TickLevel == NextLevel(Scheduler)
TickAdd == NextAdd(Scheduler)
TickUnlock == Unlock(Scheduler)

UnitsCredit == \E k \in 1..Len(units) : UnitCredit(k)
UnitsLock == \E k \in 1..Len(units) : UnitLock(k)
UnitsAppend == \E k \in 1..Len(units) : UnitAppend(k)
UnitsCount == \E k \in 1..Len(units) : UnitCount(k)
UnitsUnlock == \E k \in 1..Len(units) : UnitUnlock(k)

ActorsStartComplete == \E r \in Refs : InvestorStartComplete(r)
ActorsRetire == \E r \in Refs : InvestorRetire(r, MaxRetired)
ActorsRetireAll == \E r \in Refs : InvestorRetire(r, MaxRetiredPurge)

\* the state in which the first Start has returned and released nextLock,
\* the prefetch loop having filled the channel before and waiting to push
\* its next identity
StartedHeap ==
  [k \in 1..(DefaultWorkers + BruteForceWorkers) |->
     LET inv == IF k <= DefaultWorkers
                THEN DefaultInvestor(k - 1, k)
                ELSE NewBruteForceInvestor(Accounts(k - DefaultWorkers - 1))
     IN [inv EXCEPT !.started = TRUE]]

InitStarted ==
  /\ score = 0
  /\ errors = <<>>
  /\ overError = FALSE
  /\ lastAppend = [arg |-> NilErr, ret |-> NoFailure]
  /\ ts = IdleTS
  /\ fetched = [k \in 1..DefaultWorkers |-> k]
  /\ idlist = [k \in 1..IdListCap |-> DefaultWorkers + k]
  /\ minted = DefaultWorkers + IdListCap + 1
  /\ fid = DefaultWorkers + IdListCap + 1
  /\ fpc = "push"
  /\ regFailed = {}
  /\ ctxDone = FALSE
  /\ appepOK = TRUE
  /\ heap = StartedHeap
  /\ investors = [k \in 1..(DefaultWorkers + BruteForceWorkers) |-> k]
  /\ totalivst = DefaultWorkers + BruteForceWorkers
  /\ level = 0
  /\ credited = {StartedHeap[k].bankID :
                   k \in {j \in 1..DefaultWorkers : StartedHeap[j].credit > 0}}
  /\ nextLock = 0
  /\ investorLock = 0
  /\ pc = [t \in Callers |-> "idle"]
  /\ nx = NoLocals
  /\ units = <<>>
  /\ starts = 1
  /\ shared = 0
  /\ res = NoResult

Next ==
  \/ TickEnter
  \/ TickPurge
  \/ TickCheck
  \/ TickStart
  \/ TickWork
  \/ TickScore
  \/ TickNatural
  \/ TickAdd
  \/ TickUnlock
  \/ ActorsStartComplete
  \/ ActorsRetire

Spec == InitStarted /\ [][Next]_vars

NextGrow ==
  \/ TickAddScore
  \/ TickAppendError
  \/ TickSelect
  \/ TickMint
  \/ TickRegister
  \/ TickPush
  \/ StartCall
  \/ StartDefaults
  \/ StartCredits
  \/ StartAdmitLocks
  \/ StartAdmitAppends
  \/ StartAdmitCounts
  \/ StartAdmitUnlocks
  \/ StartIssues
  \/ StartBrutes
  \/ TickEnter
  \/ TickPurge
  \/ TickCheck
  \/ TickStart
  \/ TickWorkNoShare
  \/ TickScore
  \/ TickNatural
  \/ TickLevel
  \/ TickAdd
  \/ TickUnlock

SpecGrow == InitGrow /\ [][NextGrow]_vars

\* the growing run with the execution engine running the deferred
\* admission units, so that admitted actors wait in the registry for
\* their start unit
NextStart ==
  \/ TickAddScore
  \/ TickEnter
  \/ TickPurge
  \/ TickCheck
  \/ TickStart
  \/ TickWorkNoShare
  \/ TickScore
  \/ TickNatural
  \/ TickLevel
  \/ TickAdd
  \/ TickUnlock
  \/ UnitsCredit
  \/ UnitsLock
  \/ UnitsAppend
  \/ UnitsCount
  \/ UnitsUnlock
  \/ ActorsRetire

SpecStart == InitStarted /\ [][NextStart]_vars

\* the run with a prefetch loop that can be cancelled
NextCancel ==
  \/ TickAddScore
  \/ TickSelect
  \/ TickMint
  \/ TickRegister
  \/ TickPush
  \/ TickCancel
  \/ StartCall
  \/ StartDefaults
  \/ StartCredits
  \/ StartAdmitLocks
  \/ StartAdmitAppends
  \/ StartAdmitCounts
  \/ StartAdmitUnlocks
  \/ StartIssues
  \/ StartBrutes
  \/ TickEnter
  \/ TickPurge
  \/ TickCheck
  \/ TickStart
  \/ TickWorkNoShare
  \/ TickScore
  \/ TickNatural
  \/ TickLevel
  \/ TickAdd
  \/ TickUnlock

\* the Go scheduler runs every goroutine that is able to run: the prefetch
\* loop and the goroutine inside Start or Next; nothing makes the
\* scheduling loop call again, the score grow or the context be cancelled
FairTick ==
  /\ WF_vars(TickSelect)
  /\ WF_vars(TickMint)
  /\ WF_vars(TickRegister)
  /\ WF_vars(TickPush)
  /\ WF_vars(StartDefaults)
  /\ WF_vars(StartCredits)
  /\ WF_vars(StartAdmitLocks)
  /\ WF_vars(StartAdmitAppends)
  /\ WF_vars(StartAdmitCounts)
  /\ WF_vars(StartAdmitUnlocks)
  /\ WF_vars(StartIssues)
  /\ WF_vars(StartBrutes)
  /\ WF_vars(TickPurge)
  /\ WF_vars(TickCheck)
  /\ WF_vars(TickStart)
  /\ WF_vars(TickWorkNoShare)
  /\ WF_vars(TickScore)
  /\ WF_vars(TickNatural)
  /\ WF_vars(TickLevel)
  /\ WF_vars(TickAdd)
  /\ WF_vars(TickUnlock)

SpecCancel == InitGrow /\ [][NextCancel]_vars /\ FairTick

ManagerClose == Close

NextPurge ==
  \/ TickEnter
  \/ TickPurge
  \/ TickCheck
  \/ TickStart
  \/ TickWorkNoShare
  \/ TickScore
  \/ TickNatural
  \/ TickUnlock
  \/ ActorsStartComplete
  \/ ActorsRetireAll
  \/ ManagerClose

SpecPurge == InitStarted /\ [][NextPurge]_vars

AnyInitializeCall == \E t \in Callers : InitializeEnter(t)
AnyInitializeRun ==
  \E t \in Callers, logOK, guestOK \in BOOLEAN :
    InitializeBody(t, logOK, guestOK)
AnyStartCall == \E t \in Callers : StartEnter(t, MaxStarts)
AnyStartDefaults == \E t \in Callers : StartDefault(t)
AnyStartCredits == \E t \in Callers : StartCredit(t)
AnyStartAdmitLocks == \E t \in Callers : StartAdmitLock(t)
AnyStartAdmitAppends == \E t \in Callers : StartAdmitAppend(t)
AnyStartAdmitCounts == \E t \in Callers : StartAdmitCount(t)
AnyStartAdmitUnlocks == \E t \in Callers : StartAdmitUnlock(t)
AnyStartIssues == \E t \in Callers : StartIssue(t)
AnyStartBrutes == \E t \in Callers : StartBrute(t)
AnyTickEnter == \E t \in Callers : NextEnter(t)
AnyTickPurge == \E t \in Callers : NextPurgeInvestor(t)
AnyTickCheck == \E t \in Callers : NextCheck(t)
AnyTickStart == \E t \in Callers : NextStartLoop(t)
AnyTickWork == \E t \in Callers : NextWork(t, 0)
AnyTickScore == \E t \in Callers : NextGetScore(t)
AnyTickNatural == \E t \in Callers : NextNatural(t)
AnyUnlock == \E t \in Callers : Unlock(t)

NextLock ==
  \/ RunSelect
  \/ TickMint
  \/ TickRegister
  \/ TickPush
  \/ AnyInitializeCall
  \/ AnyInitializeRun
  \/ AnyStartCall
  \/ AnyStartDefaults
  \/ AnyStartCredits
  \/ AnyStartAdmitLocks
  \/ AnyStartAdmitAppends
  \/ AnyStartAdmitCounts
  \/ AnyStartAdmitUnlocks
  \/ AnyStartIssues
  \/ AnyStartBrutes
  \/ AnyTickEnter
  \/ AnyTickPurge
  \/ AnyTickCheck
  \/ AnyTickStart
  \/ AnyTickWork
  \/ AnyTickScore
  \/ AnyTickNatural
  \/ AnyUnlock

SpecLock == Init /\ [][NextLock]_vars


\* ---------------------------------------------------------------------
\* Properties of the registry and of the orchestration
\* ---------------------------------------------------------------------

\* the step in which a call of Next, holding the tick lock, purges
NextCalled == pc[Scheduler] = "n_purge" /\ pc'[Scheduler] = "n_check"

\* the step in which a call of Next checks for active investors
NextChecks == pc[Scheduler] = "n_check" /\ pc'[Scheduler] # "n_check"

\* the actors of invs that do not report retired in h, in the order of invs
Survivors(invs, h) ==
  LET live(r) == ~h[r].retired
  IN SelectSeq(invs, live)

\* the actors of the registry, as the purge of a call of Next found it,
\* that had not retired by then
Survivors0 ==
  LET live(r) == r \notin nx.retired0
  IN SelectSeq(nx.reg0, live)

\* C4: PurgeInvestor removes from the registry exactly the actors that
\* report retired and closes each of them, keeps every other actor and the
\* relative order of the survivors; a second PurgeInvestor right after it
\* leaves the registry unchanged and closes nothing.
C4_PurgeExact ==
  /\ [](LET p == PurgeInvestor(investors, heap)
        IN /\ p.investors = Survivors(investors, heap)
           /\ \A r \in Refs :
                p.heap[r] = IF r \in Range(investors) /\ heap[r].retired
                            THEN [heap[r] EXCEPT !.closed = TRUE]
                            ELSE heap[r]
           /\ PurgeInvestor(p.investors, p.heap) = p)
  /\ [][NextCalled =>
          /\ investors' = Survivors(investors, heap)
          /\ \A r \in Refs :
               heap'[r].closed = (\/ heap[r].closed
                                  \/ r \in Range(investors) /\ heap[r].retired)
          /\ PurgeInvestor(investors', heap').investors = investors'
          /\ PurgeInvestor(investors', heap').heap = heap']_vars

C4_Witness ==
  /\ nx.op = "Next"
  /\ Len(investors) >= 2
  /\ Len(nx.reg0) > Len(investors)
  /\ \E r \in Range(nx.reg0) \cap nx.retired0 :
       heap[r].closed /\ r \notin Range(investors)

IsNaturalAdmit(task) == task.kind = "admit" /\ task.by = "natural"
IsShareAdmit(task) == task.kind = "admit" /\ task.by = "share"

\* the step of the natural-growth loop that tests the score and the
\* error count
NaturalTest == pc[Scheduler] = "n_natural" /\ pc'[Scheduler] # "n_natural"

\* C5: natural growth in Next raises the level one step at a time while
\* the score the tick read is at least 2^level * 100 and the error count
\* its test reads is at most AllowErrorMin, and each step requests exactly
\* AddUsersOnNatural deferred admissions; score 100 at level 0 gives exactly
\* one step, a score beyond several thresholds gives several steps in the
\* same tick, and a test that reads an error count above AllowErrorMin
\* ends the tick with the level as it is, even if the score qualifies.
C5_NaturalGrowth ==
  /\ [][level' # level =>
          /\ level' = level + 1
          /\ nx.score >= NextScore(level)
          /\ nx.ec <= AllowErrorMin
          /\ Len(nx'.jobs) = 1
          /\ nx'.jobs[1].num = AddUsersOnNatural
          /\ nx'.jobs[1].by = "natural"]_vars
  /\ [][NaturalTest =>
          /\ level' = level
          /\ pc'[Scheduler] = IF /\ nx.score >= NextScore(level)
                                 /\ ErrorCount <= AllowErrorMin
                              THEN "n_level" ELSE "ret"]_vars
  /\ [](pc[Scheduler] = "ret" /\ res.op = "Next" /\ res.err = "nil" =>
          /\ Len(SelectSeq(res.tasks, IsNaturalAdmit))
               = AddUsersOnNatural * (level - nx.level0)
          /\ nx.score < NextScore(level) \/ nx.ec > AllowErrorMin
          /\ nx.score = 100 /\ nx.level0 = 0 /\ ErrorCount <= AllowErrorMin
               => level = 1)

\* a tick has raised the level twice, and a tick has ended at a test that
\* read too many errors with a score that qualified
C5_Witness ==
  /\ pc[Scheduler] = "ret"
  /\ res.op = "Next"
  /\ res.err = "nil"
  /\ level >= nx.level0 + 2
  /\ Len(SelectSeq(res.tasks, IsNaturalAdmit)) = 2 * AddUsersOnNatural

C5_GateWitness ==
  /\ pc[Scheduler] = "ret"
  /\ res.op = "Next"
  /\ res.err = "nil"
  /\ nx.score >= NextScore(level)
  /\ nx.ec > AllowErrorMin
  /\ level = nx.level0

\* C6: for every SharedTrade of an actor that is start-completed and not
\* retired when the tick visits it, the batch Next returns holds exactly
\* AddUsersOnShare deferred admissions of actors built from that trade's
\* amount and price; no other actor causes a share-triggered admission.
C6_ShareGrowth ==
  pc[Scheduler] = "ret" /\ res.op = "Next" /\ res.err = "nil" =>
    LET adm == SelectSeq(res.tasks, IsShareAdmit)
    IN /\ Len(adm) = AddUsersOnShare * Len(nx.shares)
       /\ \A k \in 1..Len(nx.shares) :
            /\ nx.shares[k].completed
            /\ ~nx.shares[k].retired
            /\ \A i \in 0..(AddUsersOnShare - 1) :
                 LET a == heap[adm[(k - 1) * AddUsersOnShare + i + 1].inv]
                     tr == nx.shares[k].trade
                 IN /\ a.unit = tr.amount
                    /\ a.price = IF i % 2 = 1 THEN tr.price - 2
                                 ELSE tr.price + 5

C6_Witness ==
  /\ pc[Scheduler] = "ret"
  /\ res.op = "Next"
  /\ res.err = "nil"
  /\ Len(nx.shares) >= 1
  /\ nx.shares[1].trade = [amount |-> 10, price |-> 5000]
  /\ \E k \in 1..Len(res.tasks) :
       /\ IsShareAdmit(res.tasks[k])
       /\ heap[res.tasks[k].inv].unit = 10
       /\ heap[res.tasks[k].inv].price = 5005
  /\ \E r \in Range(investors) : ~heap[r].startCompleted

IsActorUnit(task) == task.kind \in {"start", "work"}

\* C7: an actor that has retired is never scheduled again: the purge at
\* the beginning of the first Next called after it retired removes it from
\* the registry and closes it, and no batch of a Next called after it
\* retired holds a start unit or a work unit of it.
C7_RetiredNeverScheduled ==
  /\ [][NextCalled =>
          \A r \in RetiredNow :
            r \notin Range(investors') /\ heap'[r].closed]_vars
  /\ [](nx.op = "Next" =>
          \A r \in nx.retired0 :
            /\ r \notin Range(investors)
            /\ \A k \in 1..Len(nx.tasks) :
                 IsActorUnit(nx.tasks[k]) => nx.tasks[k].inv # r
            /\ \A k \in 1..Len(res.tasks) :
                 IsActorUnit(res.tasks[k]) => res.tasks[k].inv # r)

C7_Witness ==
  /\ pc[Scheduler] = "ret"
  /\ res.op = "Next"
  /\ res.err = "nil"
  /\ Range(nx.reg0) \cap nx.retired0 # {}
  /\ \E k \in 1..Len(res.tasks) : res.tasks[k].kind = "work"

\* C8: when the purge at the start of Next leaves no actor in the
\* registry, the check that follows it makes Next return the
\* no-active-actors error and no unit, and neither the purge nor the check
\* changes the level, the score or the error list.
C8_NoActive ==
  /\ [][NextCalled => UNCHANGED <<level, score, errors>>]_vars
  /\ [][NextChecks =>
          /\ UNCHANGED <<level, score, errors, investors>>
          /\ IF investors = <<>>
             THEN /\ pc'[Scheduler] = "ret"
                  /\ res'.err = "noactive"
                  /\ res'.tasks = <<>>
             ELSE pc'[Scheduler] = "n_start"]_vars
  /\ [](pc[Scheduler] = "ret" /\ res.op = "Next" /\ Survivors0 = <<>> =>
          /\ res.err = "noactive"
          /\ res.tasks = <<>>
          /\ level = nx.level0)

C8_Witness ==
  /\ pc[Scheduler] = "ret"
  /\ res.op = "Next"
  /\ res.err = "noactive"
  /\ nx.reg0 # <<>>
  /\ investors = <<>>

\* the actors of the registry that were in it when Next was called
Remaining0 ==
  LET old(r) == r \in Range(nx.reg0)
  IN SelectSeq(investors, old)

\* a call of Next has returned that found every actor started, was given
\* no unit by any actor and no SharedTrade, with the score below the
\* threshold of the level
IdleTick ==
  /\ pc[Scheduler] = "ret"
  /\ res.op = "Next"
  /\ nx.unstarted0 = {}
  /\ \A k \in 1..Len(nx.tasks) : nx.tasks[k].kind # "work"
  /\ nx.shares = <<>>
  /\ score < NextScore(nx.level0)

\* C9 as stated: a call of Next with no actor having pending work, no
\* SharedTrade pending and no level threshold crossed returns an empty
\* batch and no error and leaves the level and the membership of the
\* registry unchanged.
C9_Original ==
  IdleTick =>
    /\ res.err = "nil"
    /\ res.tasks = <<>>
    /\ level = nx.level0
    /\ Remaining0 = nx.reg0

\* C9: a call of Next with no actor having pending work, no SharedTrade
\* pending and no level threshold crossed, that finds at least one actor
\* in the registry that has not retired, returns an empty batch and no
\* error, leaves the level unchanged and removes from the registry the
\* retired actors only.
C9_IdleTick ==
  IdleTick /\ Survivors0 # <<>> =>
    /\ res.err = "nil"
    /\ res.tasks = <<>>
    /\ level = nx.level0
    /\ Remaining0 = Survivors0

C9_Witness ==
  /\ IdleTick
  /\ Survivors0 # <<>>
  /\ Len(Survivors0) < Len(nx.reg0)
  /\ res.err = "nil"
  /\ res.tasks = <<>>

\* the callers inside the body of Initialize, Start or Next
InBody == {t \in Callers : pc[t] # "idle"}

\* C10: Initialize, Start and Next never interleave: at most one caller is
\* between taking and releasing the tick lock, and it is the one holding
\* the lock.
C10_Exclusive ==
  /\ Cardinality(InBody) <= 1
  /\ \A t \in InBody : nextLock = t

C10_Witness ==
  /\ \E t \in Callers : pc[t] = "n_work" /\ nextLock = t
  /\ \E t \in Callers : pc[t] = "idle"
  /\ starts > 0

\* the actors that were admitted into the registry at some time: those
\* Start admitted, those a deferred unit has admitted
Admitted ==
  {r \in Refs : heap[r].started}
    \cup {units[k].inv : k \in {j \in 1..Len(units) : units[j].st = "done"}}

\* the number of actors admitted so far is at least the size of the
\* registry
CountCoversRegistry == [](totalivst >= Len(investors))

\* the same, in the states in which nobody is inside AddInvestor or
\* PurgeInvestor
CountCoversWhenUnlocked ==
  [](LockFree(investorLock) => totalivst >= Len(investors))

\* the number of actors admitted so far never decreases
CountNeverDecreases == [][totalivst' >= totalivst]_vars

\* every admitted actor that has not retired is in the registry
AdmittedStay ==
  [](\A r \in Admitted : ~heap[r].retired => r \in Range(investors))

\* only retired actors leave the registry
OnlyRetiredLeave ==
  [][\A r \in Range(investors) :
       r \notin Range(investors') => heap[r].retired]_vars

\* C11 as stated: in every reachable state, however AddInvestor (called by
\* the deferred units, which run outside the tick lock) and PurgeInvestor
\* interleave, the number of actors admitted so far is at least the size
\* of the registry and never decreases, every admitted actor that has not
\* retired is in the registry, and only retired actors leave it.
C11_AdmittedKept ==
  /\ CountCoversRegistry
  /\ CountNeverDecreases
  /\ AdmittedStay
  /\ OnlyRetiredLeave

\* a deferred unit is between the append and the count of AddInvestor,
\* with the registry larger than the count of admitted actors
CountBehind ==
  /\ \E k \in 1..Len(units) : units[k].st = "appended"
  /\ Len(investors) > totalivst

\* a call of Start has returned without an error
StartReturned ==
  /\ pc[Scheduler] = "ret"
  /\ res.op = "Start"
  /\ res.err = "nil"

\* the first Start of a run has returned: the manager is in the state
\* InitStarted describes, whatever the prefetch loop has done meanwhile
FirstStartDone ==
  /\ heap = StartedHeap
  /\ investors = [k \in 1..(DefaultWorkers + BruteForceWorkers) |-> k]
  /\ totalivst = DefaultWorkers + BruteForceWorkers
  /\ fetched = [k \in 1..DefaultWorkers |-> k]
  /\ credited = {StartedHeap[k].bankID :
                   k \in {j \in 1..DefaultWorkers : StartedHeap[j].credit > 0}}
  /\ level = 0
  /\ units = <<>>

\* C13: a Start that returns no error returns exactly DefaultWorkers +
\* BruteForceWorkers start units, one per actor it admitted, in the order
\* of admission; the registry and the count of admitted actors both grow
\* by that number, the new actors coming after those already there; the
\* default workers come first and alternate between the two constructions
\* with the parity of their index.
C13_StartPopulation ==
  StartReturned =>
    LET n0 == Len(nx.reg0)
    IN /\ Len(res.tasks) = DefaultWorkers + BruteForceWorkers
       /\ Len(investors) = n0 + DefaultWorkers + BruteForceWorkers
       /\ SubSeq(investors, 1, n0) = nx.reg0
       /\ totalivst = nx.total0 + DefaultWorkers + BruteForceWorkers
       /\ \A k \in 1..Len(res.tasks) :
            /\ res.tasks[k].kind = "start"
            /\ res.tasks[k].inv = investors[n0 + k]
            /\ heap[investors[n0 + k]].started
            /\ heap[investors[n0 + k]].kind
                 = IF k <= DefaultWorkers THEN "random" ELSE "brute"
       /\ \A j, k \in 1..Len(investors) : j # k => investors[j] # investors[k]
       /\ \A k \in 1..(DefaultWorkers - 1) :
            /\ (heap[investors[n0 + k]].credit > 0)
                 # (heap[investors[n0 + k + 1]].credit > 0)
            /\ (heap[investors[n0 + k]].isu > 0)
                 # (heap[investors[n0 + k + 1]].isu > 0)
       /\ starts = 1 => FirstStartDone

\* a second Start has returned, its actors admitted after those of the
\* first
C13_Witness ==
  /\ StartReturned
  /\ Len(res.tasks) = DefaultWorkers + BruteForceWorkers
  /\ DefaultWorkers >= 2
  /\ BruteForceWorkers >= 1
  /\ Len(nx.reg0) = DefaultWorkers + BruteForceWorkers
  /\ heap[investors[Len(nx.reg0) + 1]].credit
       # heap[investors[Len(nx.reg0) + 2]].credit

\* a step of Next that reads c.investors: the check for active
\* investors, the start loop, and the loop that asks each investor for its
\* next unit and its SharedTrades
NextReadsRegistry ==
  /\ pc[Scheduler] \in {"n_check", "n_start", "n_work"}
  /\ nx' # nx

\* a deferred admission unit is inside AddInvestor, between taking
\* investorLock and releasing it
UnitInAddInvestor ==
  \E k \in 1..Len(units) : units[k].st \in {"locked", "appended", "counted"}

\* C16 as stated: investorLock keeps the reads of c.investors apart from
\* the admissions: Next never goes through c.investors while a deferred
\* admission unit is inside AddInvestor.
C16_GuardedReads ==
  [][NextReadsRegistry => ~UnitInAddInvestor /\ LockFree(investorLock)]_vars


\* a step of Start's loop over the default workers or of addInvestors
\* that constructs an investor; nx.i is its index within the batch
Constructs == pc[Scheduler] \in {"s_default", "n_add"} /\ Len(heap') = Len(heap) + 1

\* constructed with currency credit and no inventory
IsBuyer(inv) == inv.credit > 0 /\ inv.isu = 0

\* constructed with inventory and no currency credit
IsSeller(inv) == inv.isu > 0 /\ inv.credit = 0

\* C17 as stated: within every admission batch, in Start's default
\* population and in the admission requests of Next, the actor at an
\* even index is built as a buyer with credit and no inventory and the
\* actor at an odd index as a seller with inventory and no credit.
C17_Original ==
  [][Constructs =>
       LET inv == heap'[Len(heap')]
       IN IF nx.i % 2 = 0 THEN IsBuyer(inv) ELSE IsSeller(inv)]_vars

\* C17: within every admission batch the actor at an odd index is built
\* as a buyer with credit and no inventory (100000 in Start, a thousand
\* times the requested price in Next), and the actor at an even index as
\* a seller with inventory and no credit (5 in Start, a hundred times the
\* unit amount in Next); in Next the buyer bids 2 below and the seller
\* asks 5 above the requested price.
C17_Parity ==
  [][Constructs =>
       LET inv == heap'[Len(heap')]
       IN /\ IF nx.i % 2 = 1 THEN IsBuyer(inv) ELSE IsSeller(inv)
          /\ pc[Scheduler] = "s_default" =>
               IF nx.i % 2 = 1 THEN inv.credit = 100000 ELSE inv.isu = 5
          /\ pc[Scheduler] = "n_add" =>
               LET job == Head(nx.jobs)
               IN /\ inv.unit = job.unit
                  /\ IF nx.i % 2 = 1
                     THEN inv.credit = job.price * 1000 /\ inv.price = job.price - 2
                     ELSE inv.isu = job.unit * 100 /\ inv.price = job.price + 5]_vars

\* a batch of Start and a batch of Next have each built a seller at index
\* 0 and a buyer at index 1
C17_Witness ==
  /\ nx.op = "Next"
  /\ Len(heap) >= DefaultWorkers + BruteForceWorkers + 2
  /\ IsSeller(heap[1])
  /\ IsBuyer(heap[2])
  /\ \E k \in 1..(Len(nx.tasks) - 1) :
       /\ IsAdmit(nx.tasks[k])
       /\ IsAdmit(nx.tasks[k + 1])
       /\ nx.tasks[k + 1].inv = nx.tasks[k].inv + 1
       /\ IsSeller(heap[nx.tasks[k].inv])
       /\ IsBuyer(heap[nx.tasks[k + 1].inv])


\* the step of Next that runs its start loop
StartLoopRuns == pc[Scheduler] = "n_start" /\ pc'[Scheduler] = "n_work"

\* the positions of the registry, as the start loop finds it, that hold an
\* investor not yet started
UnstartedAt(invs) == {k \in 1..Len(invs) : ~heap[invs[k]].started}

\* C18: each Next call issues a start unit to at most 2 actors (to 2, or
\* to all if fewer are waiting), only to actors in the registry that are
\* not yet started, taking them in registry order and keeping that order
\* in the batch, however many not-yet-started actors the registry holds;
\* a unit is issued only to an actor not marked started, the issue marks
\* it started, and the mark is never removed, so that no actor is issued
\* a start unit twice.
C18_StartThrottle ==
  /\ [][StartLoopRuns =>
          LET U == UnstartedAt(investors)
              n == Len(nx'.tasks)
          IN /\ n <= StartPerTick
             /\ n = IF Cardinality(U) < StartPerTick
                    THEN Cardinality(U) ELSE StartPerTick
             /\ \A j \in 1..n :
                  /\ nx'.tasks[j].kind = "start"
                  /\ \E k \in U :
                       /\ investors[k] = nx'.tasks[j].inv
                       /\ Cardinality({m \in U : m < k}) = j - 1
             /\ \A r \in Refs :
                  heap'[r].started # heap[r].started =>
                    \E j \in 1..n : nx'.tasks[j].inv = r]_vars
  /\ [][\A r \in Refs : heap[r].started => heap'[r].started]_vars
  /\ [][\A j \in 1..Len(nx'.tasks) :
          (j > Len(nx.tasks) /\ nx'.tasks[j].kind = "start") =>
            LET r == nx'.tasks[j].inv
            IN /\ heap'[r].started
               /\ r \in Refs => ~heap[r].started]_vars

\* Next has found at least 3 registry members waiting for their start
\* unit, has issued 2 and left the others unstarted in the registry,
\* next to the actors Start had started
C18_Witness ==
  /\ pc[Scheduler] = "n_work"
  /\ nx.op = "Next"
  /\ Cardinality(nx.unstarted0) >= StartPerTick + 1
  /\ Cardinality({r \in nx.unstarted0 : heap[r].started}) = StartPerTick
  /\ Unstarted(investors) # {}
  /\ \E r \in Range(investors) : r \notin nx.unstarted0


\* a step of the goroutine that is inside Start or Next
CallStep == pc' # pc \/ nx' # nx

\* Start or Next waits in FetchNewID, holding nextLock, on an empty channel
\* that the cancelled prefetch loop will not fill
BlockedInFetch ==
  /\ pc[Scheduler] \in {"s_default", "n_add"}
  /\ nextLock = Scheduler
  /\ idlist = <<>>
  /\ ctxDone

\* Next adds no actor to the registry and grants no credit itself: both
\* happen in the deferred units
NextDefers ==
  [][CallStep /\ nx'.op = "Next" =>
       /\ Len(investors') <= Len(investors)
       /\ totalivst' = totalivst
       /\ credited' = credited]_vars

\* no step taken while holding nextLock calls the bank's AddCredit
NoCreditUnderLock ==
  [][CallStep /\ nextLock = Scheduler => credited' = credited]_vars

\* every call that holds nextLock completes and releases it
CallCompletes == (nextLock # 0) ~> (nextLock = 0)

\* C19 as stated: Start and Next do not wait on external services while
\* holding nextLock; Next grants credit and registers new actors only when
\* the returned deferred units run, adding no actor itself; and a Start or
\* Next call that needs new identities completes and releases nextLock
\* also when the channel of identities is empty or the prefetch loop has
\* been cancelled.
C19_NoWaitUnderLock ==
  /\ NextDefers
  /\ NoCreditUnderLock
  /\ CallCompletes


\* a TotalScore call has returned
TotalScoreReturned == ts.pc = "done"

\* C20 as stated: TotalScore never returns a negative value and, for a
\* call that read the run as not voided, never less than half of the score
\* it read, for any interleaving of AddScore, AppendError and the three
\* reads of TotalScore.
C20_AtLeastHalf ==
  TotalScoreReturned =>
    /\ ts.ret >= 0
    /\ ~ts.over0 => 2 * ts.ret >= ts.score

\* a TotalScore call that read the run as not voided returns a negative
\* value
NegativeTotal == TotalScoreReturned /\ ~ts.over0 /\ ts.ret < 0

====
